---- MODULE Spec2Model ----
(***************************************************************************)
(* Verification model of the NAAC automation pipeline (level-up):          *)
(*   - text_segmenter.manual_segmenter / verify_extraction                 *)
(*   - qnm_extractor.extract_qnm and the first-seen-wins merge of          *)
(*     run_pipeline                                                        *)
(*   - cgpa_calculator.CGPACalculator                                      *)
(*   - process_sss.NAACSSSProcessor                                        *)
(*   - the stages of run_pipeline                                          *)
(*   - the endpoints of cgpa_api and the command line of cgpa_calculator   *)
(*                                                                         *)
(* Texts are sequences of tokens.  No canonical header is a substring of   *)
(* another one and no suffix of a header is a prefix of a header, so every *)
(* text splits uniquely into header occurrences and other characters; a    *)
(* header occurrence is one token (its numeral), " " is a whitespace       *)
(* character and "x" any other character.  Positions are 0-based as in     *)
(* Python, and len(header) is one token.                                   *)
(*                                                                         *)
(* Floats are exact fixed-point integers; the scale is stated at each use. *)
(***************************************************************************)
EXTENDS Integers, Sequences, FiniteSets, TLC

VARIABLES
    phase,          \* which component the behaviour exercises
    \* ---- manual_segmenter ----
    text,           \* the raw text
    i,              \* loop index of `for i in range(len(MANUAL_HEADERS))`
    current_pos,    \* search offset
    sections,       \* the result dict, as the sequence of its items in insertion order
    \* ---- extract_qnm and the merge loop of run_pipeline ----
    section_text,        \* the section text, as what re.search returns on it per pattern
    results,        \* the dict extract_qnm returned for the last section
    final_metrics,  \* the document-level dict
    sec_idx,        \* number of sections the merge loop has processed
    \* ---- CGPACalculator.calculate ----
    raw_qnm,        \* the dict loaded from qnm_path
    qlm_conf,       \* the confidence of each entry of the dict loaded from qlm_path,
                    \* in thousandths
    sss_weighted,   \* naac_scoring.weighted_score loaded from sss_path, in hundredths
    result,         \* the dict calculate returns; scores and cgpa in hundredths
    \* ---- NAACSSSProcessor.process ----
    csv_file,       \* the lines of the survey file
    line_num,       \* reader.line_num: the number of lines read so far
    category_data,  \* the samples of each category, in hundredths
    valid_responses,
    analysis,       \* the dict process returns
    \* ---- verify_extraction ----
    verified,       \* what verify_extraction returned
    reported,       \* the criterion numbers it printed as missing, in print order
    \* ---- run_pipeline ----
    written,        \* the output files the run has written
    raised,         \* the exception that left the exercised call, or "none"
    \* ---- cgpa_api and the command line of cgpa_calculator ----
    fs,             \* the directory entries: path -> number of the file
    inodes,         \* the content of each file, by number
    req             \* the requests being handled, each with its position

segVars == <<text, i, current_pos, sections>>
qnmVars == <<section_text, results, final_metrics, sec_idx>>
calcVars == <<raw_qnm, qlm_conf, sss_weighted, result>>
sssVars == <<csv_file, line_num, category_data, valid_responses, analysis>>
verVars == <<verified, reported>>
pipeVars == <<written>>
apiVars == <<fs, inodes, req>>
vars == <<phase, segVars, qnmVars, calcVars, sssVars, verVars, pipeVars, raised,
          apiVars>>

----------------------------------------------------------------------------
(* Bounds *)

\* number of extra tokens inserted into an in-order list of headers
MaxExtra == 1

\* number of metric ids a section text mentions
MaxMentioned == 1

\* number of sections the merge loop iterates over
MaxSections == 3

\* number of entries of the QlM predictions file
MaxPredictions == 2

\* number of data lines of a survey file
MaxRows == 2

\* how far below 0.00 and above 4.00 the looked-up cgpa values reach, in hundredths
CgpaMargin == 25

----------------------------------------------------------------------------
(* text_segmenter.py *)

MANUAL_HEADERS == <<"I", "II", "III", "IV", "V", "VI", "VII">>

HeaderSet == {MANUAL_HEADERS[k] : k \in 1..Len(MANUAL_HEADERS)}

Alphabet == HeaderSet \cup {" ", "x"}

\* str.find(sub, start): lowest 0-based index >= start holding sub, else -1
Find(s, sub, start) ==
    LET hits == {p \in start..(Len(s) - 1) : s[p + 1] = sub}
    IN  IF hits = {} THEN -1 ELSE CHOOSE p \in hits : \A q \in hits : p <= q

\* s[a:b] for 0 <= a, 0 <= b <= len(s)
Slice(s, a, b) == SubSeq(s, a + 1, b)

\* the content is stored as sliced
Strip_none(s) == s

\* str.strip(): leading and trailing whitespace removed
Strip(s) ==
    LET keep == {p \in 1..Len(s) : s[p] # " "}
    IN  IF keep = {} THEN <<>>
        ELSE SubSeq(s, CHOOSE p \in keep : \A q \in keep : p <= q,
                       CHOOSE p \in keep : \A q \in keep : q <= p)

\* the sequences of ss joined
RECURSIVE Concat(_)
Concat(ss) == IF ss = <<>> THEN <<>> ELSE Head(ss) \o Concat(Tail(ss))

\* the keys of the result dict, in insertion order
Keys(secs) == [k \in 1..Len(secs) |-> secs[k].header]

\* line 27 with an off-by-one: the search starts after current_pos
HeaderStart_skip(t, header, pos) == Find(t, header, pos + 1)

\* line 27: start = text.find(header, current_pos)
HeaderStart(t, header, pos) == Find(t, header, pos)

\* lines 34-36 with the section closed right after its header when the next
\* header is not found
SectionEnd_empty(t, k, start) ==
    LET hasNext == k < Len(MANUAL_HEADERS)
        found == IF hasNext THEN Find(t, MANUAL_HEADERS[k + 1], start) ELSE Len(t)
    IN  IF found = -1 /\ hasNext THEN start + 1 ELSE found

\* lines 33-36: the end of the section that starts at `start`; k is the
\* 1-based index of the header in MANUAL_HEADERS
SectionEnd(t, k, start) ==
    LET hasNext == k < Len(MANUAL_HEADERS)
        found == IF hasNext THEN Find(t, MANUAL_HEADERS[k + 1], start) ELSE Len(t)
    IN  IF found = -1 /\ hasNext THEN Len(t) ELSE found

\* one iteration with `break` in place of `continue` on line 30
SegStep_break ==
    /\ phase = "segment"
    /\ i < Len(MANUAL_HEADERS)
    /\ LET header == MANUAL_HEADERS[i + 1]
           start == HeaderStart(text, header, current_pos)
       IN  IF start = -1
           THEN \* break
                /\ i' = Len(MANUAL_HEADERS)
                /\ UNCHANGED <<text, current_pos, sections>>
           ELSE LET end == SectionEnd(text, i + 1, start)
                    content == Strip(Slice(text, start + 1, end))
                IN  /\ sections' = Append(sections,
                                          [header |-> header, content |-> content])
                    /\ current_pos' = end
                    /\ i' = i + 1
                    /\ UNCHANGED text
    /\ UNCHANGED <<phase, qnmVars, calcVars, sssVars, verVars, pipeVars, raised>>
    /\ UNCHANGED apiVars

\* one iteration of the for loop of manual_segmenter
SegStep ==
    /\ phase = "segment"
    /\ i < Len(MANUAL_HEADERS)
    /\ LET header == MANUAL_HEADERS[i + 1]
           start == HeaderStart(text, header, current_pos)
       IN  IF start = -1
           THEN \* continue
                /\ i' = i + 1
                /\ UNCHANGED <<text, current_pos, sections>>
           ELSE LET end == SectionEnd(text, i + 1, start)
                    content == Strip(Slice(text, start + 1, end))
                IN  /\ sections' = Append(sections,
                                          [header |-> header, content |-> content])
                    /\ current_pos' = end
                    /\ i' = i + 1
                    /\ UNCHANGED text
    /\ UNCHANGED <<phase, qnmVars, calcVars, sssVars, verVars, pipeVars, raised>>
    /\ UNCHANGED apiVars

\* manual_segmenter has returned
SegDone == phase = "segment" /\ i = Len(MANUAL_HEADERS)

\* lines 9-17: the header string each token stands for
HeaderText ==
    [h \in HeaderSet |->
        CASE h = "I"   -> "CRITERION I  : Curricular Aspects"
          [] h = "II"  -> "CRITERION II : Teaching, Learning and Evaluation"
          [] h = "III" -> "CRITERION III : Research and Consultancy"
          [] h = "IV"  -> "CRITERION IV : Infrastructure and Learning Resources"
          [] h = "V"   -> "CRITERION V  : Student Support and Progression"
          [] h = "VI"  -> "CRITERION VI : Governance and Leadership"
          [] h = "VII" -> "CRITERION VII : Innovations and Best Practices"]

\* the keys of the result dict as the strings they are
KeyStrings(secs) == {HeaderText[secs[k].header] : k \in 1..Len(secs)}

\* lines 58-62 of roman_numeral
RomanValues ==
    << [n |-> 1000, symbol |-> "M"], [n |-> 900, symbol |-> "CM"],
       [n |-> 500, symbol |-> "D"],  [n |-> 400, symbol |-> "CD"],
       [n |-> 100, symbol |-> "C"],  [n |-> 90, symbol |-> "XC"],
       [n |-> 50, symbol |-> "L"],   [n |-> 40, symbol |-> "XL"],
       [n |-> 10, symbol |-> "X"],   [n |-> 9, symbol |-> "IX"],
       [n |-> 5, symbol |-> "V"],    [n |-> 4, symbol |-> "IV"],
       [n |-> 1, symbol |-> "I"] >>

\* lines 63-68: the symbols appended from the k-th pair on, joined
RECURSIVE RomanFrom(_, _)
RomanFrom(num, k) ==
    IF k > Len(RomanValues) THEN ""
    ELSE IF num >= RomanValues[k].n
         THEN RomanValues[k].symbol \o RomanFrom(num - RomanValues[k].n, k)
         ELSE RomanFrom(num, k + 1)

roman_numeral(num) == RomanFrom(num, 1)

\* line 46
REQUIRED_CRITERIA == 7

\* line 51: f"CRITERION {roman_numeral(i)}" not in sections, a test on the
\* keys of the dict
NotInSections(n, secs) == ("CRITERION " \o roman_numeral(n)) \notin KeyStrings(secs)

\* lines 50-52: the criterion numbers printed as missing, in print order
MissingPrinted(secs) ==
    SelectSeq([n \in 1..7 |-> n], LAMBDA n : NotInSections(n, secs))

\* verify_extraction(sections), called on what manual_segmenter returned
Verify ==
    /\ SegDone
    /\ IF Len(sections) < REQUIRED_CRITERIA
       THEN /\ reported' = MissingPrinted(sections)
            /\ verified' = FALSE
       ELSE /\ reported' = <<>>
            /\ verified' = TRUE
    /\ phase' = "verified"
    /\ UNCHANGED <<segVars, qnmVars, calcVars, sssVars, pipeVars, raised>>
    /\ UNCHANGED apiVars

\* the segmenter's variables while another component is exercised
SegIdle ==
    /\ text = <<>>
    /\ i = 0
    /\ current_pos = 0
    /\ sections = <<>>

----------------------------------------------------------------------------
(* qnm_extractor.py *)

\* QNM_PATTERNS: per metric id the ordered (pattern, min, max) rules.  form
\* names the capture groups of the pattern: "ratio" is one group (\d+:\d+),
\* "pair" is two groups (\d+) (\d+), "single" is one group (\d+).
QNM_PATTERNS ==
    [m \in {"1.1.1", "2.3.1", "3.2.1", "4.1.1", "5.2.1"} |->
        CASE m = "1.1.1" -> << [form |-> "ratio",  min |-> 5, max |-> 50],
                               [form |-> "pair",   min |-> 5, max |-> 50] >>
          [] m = "2.3.1" -> << [form |-> "single", min |-> 0, max |-> 200],
                               [form |-> "single", min |-> 0, max |-> 200] >>
          [] m = "3.2.1" -> << [form |-> "single", min |-> 0, max |-> 1000],
                               [form |-> "single", min |-> 0, max |-> 1000] >>
          [] m = "4.1.1" -> << [form |-> "single", min |-> 1, max |-> 100],
                               [form |-> "single", min |-> 1, max |-> 50] >>
          [] m = "5.2.1" -> << [form |-> "single", min |-> 0, max |-> 100],
                               [form |-> "single", min |-> 0, max |-> 100] >>]

MetricIds == DOMAIN QNM_PATTERNS

\* re.search found nothing
NoMatch == [matched |-> FALSE, groups |-> <<>>]

\* re.search found a match with these capture groups; a group is the
\* sequence of the digit strings it holds, <<a, b>> standing for "a:b"
Match(gs) == [matched |-> TRUE, groups |-> gs]

\* an empty dict
NoMetrics == [m \in {} |-> 0]

\* the metric id is not in the result
Absent == -1

\* validate_value with exclusive bounds
validate_value_strict(value, min_val, max_val) ==
    ~(value <= min_val \/ value >= max_val)

\* validate_value: TRUE when it returns value, FALSE when it raises ValueError
validate_value(value, min_val, max_val) ==
    ~(value < min_val \/ value > max_val)

\* line 45: the first group g with `g and g.replace(':','').isdigit()`;
\* every group of these patterns is made of digits and ':' only
FirstDigitGroup(gs) ==
    LET ok == {k \in 1..Len(gs) : Len(gs[k]) > 0}
    IN  IF ok = {} THEN <<>> ELSE gs[CHOOSE k \in ok : \A j \in ok : k <= j]

\* line 47: float(value.split(':')[0]) if ':' in value else float(value)
ParseValue(value) == value[1]

RECURSIVE TryPatterns(_, _, _)

\* the ValueError leaves extract_qnm
Raises == -2

\* no except branch: the ValueError of validate_value is not caught
OnValueError_propagate(c, m, k) == Raises

\* the except branch gives the metric id up
OnValueError_giveUp(c, m, k) == Absent

\* lines 51-52: the ValueError is caught inside the loop over the patterns,
\* which goes on with the next pattern
OnValueError(c, m, k) == TryPatterns(c, m, k + 1)

\* lines 41-52: the loop over the patterns of metric id m, from the k-th on
TryPatterns(c, m, k) ==
    IF k > Len(QNM_PATTERNS[m]) THEN Absent
    ELSE LET rule == QNM_PATTERNS[m][k]
             match == c[m][k]
         IN  IF ~match.matched THEN TryPatterns(c, m, k + 1)
             ELSE LET value == FirstDigitGroup(match.groups)
                  IN  IF value = <<>> THEN TryPatterns(c, m, k + 1)
                      ELSE IF validate_value(ParseValue(value), rule.min, rule.max)
                           THEN ParseValue(value)      \* stored, break
                           ELSE OnValueError(c, m, k)

\* a ValueError leaves the loops of extract_qnm(text)
ExtractRaises(c) == \E m \in MetricIds : TryPatterns(c, m, 1) = Raises

\* extract_qnm(text), when it returns
extract_qnm(c) ==
    LET found == {m \in MetricIds : TryPatterns(c, m, 1) # Absent}
    IN  [m \in found |-> TryPatterns(c, m, 1)]

\* the merge keeps the later value
Merge_overwrite(final, qm) ==
    [m \in DOMAIN final \cup DOMAIN qm |->
        IF m \in DOMAIN qm THEN qm[m] ELSE final[m]]

\* __init__.py lines 55-57 (and qnm_extractor.py lines 90-92):
\* `if metric not in final_metrics: final_metrics[metric] = value`
Merge(final, qm) ==
    [m \in DOMAIN final \cup DOMAIN qm |->
        IF m \in DOMAIN final THEN final[m] ELSE qm[m]]

----------------------------------------------------------------------------
(* Exact arithmetic.  A float is the rational [n, d] in lowest terms with  *)
(* d > 0.  round(x, 2) gives an integer number of hundredths; when x lies  *)
(* exactly halfway between two hundredths the binary representation error  *)
(* of x decides the direction, so both neighbours are possible outcomes.   *)

Abs(x) == IF x < 0 THEN -x ELSE x

RECURSIVE GCD(_, _)
GCD(a, b) == IF b = 0 THEN a ELSE GCD(b, a % b)

Rat(n, d) == LET g == GCD(Abs(n), d) IN [n |-> n \div g, d |-> d \div g]

RAdd(a, b) == Rat(a.n * b.d + b.n * a.d, a.d * b.d)
RScale(a, k, q) == Rat(a.n * k, a.d * q)           \* a * k / q
RLeq(a, b) == a.n * b.d <= b.n * a.d
RMin(a, b) == IF RLeq(a, b) THEN a ELSE b
RMax(a, b) == IF RLeq(a, b) THEN b ELSE a

RECURSIVE RSumSeq(_)
RSumSeq(xs) == IF xs = <<>> THEN Rat(0, 1) ELSE RAdd(Head(xs), RSumSeq(Tail(xs)))

RECURSIVE RSumFun(_)
RSumFun(f) ==
    IF DOMAIN f = {} THEN Rat(0, 1)
    ELSE LET k == CHOOSE k \in DOMAIN f : TRUE
         IN  RAdd(f[k], RSumFun([j \in DOMAIN f \ {k} |-> f[j]]))

\* round(x, 2), in hundredths
Round2(x) ==
    LET lowHundredths == (100 * x.n) \div x.d
        rest == 100 * x.n - lowHundredths * x.d
    IN  IF 2 * rest < x.d THEN {lowHundredths}
        ELSE IF 2 * rest > x.d THEN {lowHundredths + 1}
        ELSE {lowHundredths, lowHundredths + 1}

----------------------------------------------------------------------------
(* cgpa_calculator.py *)

\* the table with 2.51 left out of B+
GRADE_BOUNDARIES_gap ==
    << [grade |-> "A++", low |-> 351, high |-> 400],
       [grade |-> "A+",  low |-> 326, high |-> 350],
       [grade |-> "A",   low |-> 301, high |-> 325],
       [grade |-> "B++", low |-> 276, high |-> 300],
       [grade |-> "B+",  low |-> 252, high |-> 275],
       [grade |-> "B",   low |-> 201, high |-> 250],
       [grade |-> "C",   low |-> 151, high |-> 200],
       [grade |-> "D",   low |-> 0,   high |-> 150] >>

\* GRADE_BOUNDARIES in dict order, bounds in hundredths
GRADE_BOUNDARIES ==
    << [grade |-> "A++", low |-> 351, high |-> 400],
       [grade |-> "A+",  low |-> 326, high |-> 350],
       [grade |-> "A",   low |-> 301, high |-> 325],
       [grade |-> "B++", low |-> 276, high |-> 300],
       [grade |-> "B+",  low |-> 251, high |-> 275],
       [grade |-> "B",   low |-> 201, high |-> 250],
       [grade |-> "C",   low |-> 151, high |-> 200],
       [grade |-> "D",   low |-> 0,   high |-> 150] >>

QNM_BENCHMARKS == ("3.2.1" :> 200) @@ ("4.1.1" :> 40) @@ ("5.2.1" :> 100)

\* the score without its ceiling
NormalizeOne_uncapped(k, v) == Rat(4 * v, QNM_BENCHMARKS[k])

\* line 26: min(4.0, (v / self.QNM_BENCHMARKS[k]) * 4)
NormalizeOne(k, v) == RMin(Rat(4, 1), Rat(4 * v, QNM_BENCHMARKS[k]))

\* ids without a benchmark are passed through, clipped at the ceiling
normalize_qnm_keepAll(raw_metrics) ==
    [k \in DOMAIN raw_metrics |->
        IF k \in DOMAIN QNM_BENCHMARKS THEN NormalizeOne(k, raw_metrics[k])
        ELSE RMin(Rat(4, 1), Rat(raw_metrics[k], 1))]

\* _normalize_qnm(raw_metrics): a new dict, raw_metrics is only read
normalize_qnm(raw_metrics) ==
    [k \in {k \in DOMAIN raw_metrics : k \in DOMAIN QNM_BENCHMARKS} |->
        NormalizeOne(k, raw_metrics[k])]

\* line 37: sum(normalized_qnm.values()) / len(normalized_qnm) if normalized_qnm else 0
SgsOf(normalized) ==
    IF DOMAIN normalized = {} THEN Rat(0, 1)
    ELSE RScale(RSumFun(normalized), 1, Cardinality(DOMAIN normalized))

\* lines 43-44: the mean of confidence * 4, or 0 for no entry
QlmOf(confs) ==
    IF confs = <<>> THEN Rat(0, 1)
    ELSE RScale(RSumSeq([k \in 1..Len(confs) |-> Rat(4 * confs[k], 1000)]), 1, Len(confs))

\* the survey score taken as it is
SssOf_unclamped(weighted) == Rat(weighted, 100)

\* line 51: min(4.0, max(0.0, sss_score))
SssOf(weighted) == RMin(Rat(4, 1), RMax(Rat(0, 1), Rat(weighted, 100)))

\* the weights of qlm and sss exchanged
WeightedSum_swapped(sgs, qlm, sss) ==
    RAdd(RScale(sgs, 5, 10), RAdd(RScale(qlm, 2, 10), RScale(sss, 3, 10)))

\* line 54: (sgs * 0.5) + (qlm * 0.3) + (sss_score * 0.2)
WeightedSum(sgs, qlm, sss) ==
    RAdd(RScale(sgs, 5, 10), RAdd(RScale(qlm, 3, 10), RScale(sss, 2, 10)))

\* the lookup with the top grade as its default
GradeLookup_top(table, cgpa) ==
    LET hits == {k \in 1..Len(table) : table[k].low <= cgpa /\ cgpa <= table[k].high}
    IN  IF hits = {} THEN table[1].grade
        ELSE table[CHOOSE k \in hits : \A j \in hits : k <= j].grade

\* lines 58-61: next((g for g, (low, high) in table.items()
\*                    if low <= cgpa <= high), "D")
GradeLookup(table, cgpa) ==
    LET hits == {k \in 1..Len(table) : table[k].low <= cgpa /\ cgpa <= table[k].high}
    IN  IF hits = {} THEN "D"
        ELSE table[CHOOSE k \in hits : \A j \in hits : k <= j].grade

\* the flag is also withheld from grade C
IsAccredited_aboveC(grade) == grade \notin {"C", "D"}

\* line 69: "is_accredited": grade != "D"
IsAccredited(grade) == grade # "D"

NoResult ==
    [sgs_score |-> 0, qlm_score |-> 0, sss_score |-> 0, cgpa |-> 0,
     grade |-> "", is_accredited |-> FALSE, normalized_qnm |-> NoMetrics]

\* calculate(qnm_path, qlm_path, sss_path)
Calculate ==
    /\ phase = "calc"
    /\ LET normalized_qnm == normalize_qnm(raw_qnm)
           sgs == SgsOf(normalized_qnm)
           qlm == QlmOf(qlm_conf)
           sss_score == SssOf(sss_weighted)
       IN  \E cgpa \in Round2(WeightedSum(sgs, qlm, sss_score)),
              sgs2 \in Round2(sgs), qlm2 \in Round2(qlm), sss2 \in Round2(sss_score) :
              LET grade == GradeLookup(GRADE_BOUNDARIES, cgpa)
              IN  result' = [sgs_score |-> sgs2,
                             qlm_score |-> qlm2,
                             sss_score |-> sss2,
                             cgpa |-> cgpa,
                             grade |-> grade,
                             is_accredited |-> IsAccredited(grade),
                             normalized_qnm |-> normalized_qnm]
    /\ phase' = "calculated"
    /\ UNCHANGED <<segVars, qnmVars, raw_qnm, qlm_conf, sss_weighted>>
    /\ UNCHANGED <<sssVars, verVars, pipeVars, raised>>
    /\ UNCHANGED apiVars

\* lines 57-71 on a given rounded cgpa: the grade and the accreditation flag
Grade ==
    /\ phase = "grade"
    /\ LET grade == GradeLookup(GRADE_BOUNDARIES, result.cgpa)
       IN  result' = [result EXCEPT !.grade = grade, !.is_accredited = IsAccredited(grade)]
    /\ phase' = "graded"
    /\ UNCHANGED <<segVars, qnmVars, raw_qnm, qlm_conf, sss_weighted>>
    /\ UNCHANGED <<sssVars, verVars, pipeVars, raised>>
    /\ UNCHANGED apiVars

\* the calculator's variables while another component is exercised
CalcIdle ==
    /\ raw_qnm = NoMetrics
    /\ qlm_conf = <<>>
    /\ sss_weighted = 0
    /\ result = NoResult

----------------------------------------------------------------------------
(* process_sss.py *)
(*                                                                         *)
(* A CSV file is the sequence of its lines: the header line with its set   *)
(* of column names, then data lines, each a row or a blank line.  A row    *)
(* maps every column to a cell: a float literal (its value in hundredths), *)
(* the literal nan, a text that float() rejects (the empty string too), or *)
(* None, which csv.DictReader stores for the columns a short row lacks.    *)

\* lines 8-24, in dict order; weights in hundredths
NAAC_WEIGHTS ==
    << [category |-> "Curriculum_Design_Relevance",      weight |-> 15],
       [category |-> "Teaching_Learning_Quality",        weight |-> 20],
       [category |-> "Assessment_Process_Fairness",      weight |-> 10],
       [category |-> "Infrastructure_Facilities",        weight |-> 8],
       [category |-> "Library_Resources_Access",         weight |-> 7],
       [category |-> "ICT_Resources_Availability",       weight |-> 7],
       [category |-> "Student_Support_Services",         weight |-> 8],
       [category |-> "Administrative_Efficiency",        weight |-> 7],
       [category |-> "Extracurricular_Activities",       weight |-> 5],
       [category |-> "Research_Innovation_Support",      weight |-> 8],
       [category |-> "Gender_Sensitivity_Initiatives",   weight |-> 4],
       [category |-> "Environmental_Sustainability",     weight |-> 3],
       [category |-> "Value_Added_Courses",              weight |-> 3],
       [category |-> "Grievance_Redressal_System",       weight |-> 3],
       [category |-> "Overall_Institutional_Experience", weight |-> 10] >>

\* line 30: self.categories = list(NAAC_WEIGHTS.keys())
categories == [k \in 1..Len(NAAC_WEIGHTS) |-> NAAC_WEIGHTS[k].category]

CategorySet == {categories[k] : k \in 1..Len(categories)}

\* the cells of a row
Float(v) == [kind |-> "float", val |-> v]
NaN == [kind |-> "nan", val |-> 0]
Text == [kind |-> "text", val |-> 0]
None == [kind |-> "None", val |-> 0]

\* the lines of a file
HeaderLine(fields) == [kind |-> "header", fields |-> fields, cells |-> <<>>]
RowLine(cells) == [kind |-> "row", fields |-> {}, cells |-> cells]
BlankLine == [kind |-> "blank", fields |-> {}, cells |-> <<>>]

\* the scale test with 5 as the upper end
InScale_five(v) == 0 <= v /\ v <= 500

\* line 34: 0 <= float(row[cat]) <= 4
InScale(v) == 0 <= v /\ v <= 400

\* line 34: all(0 <= float(row[cat]) <= 4 for cat in self.categories), from
\* the k-th category on: "True", "False", or the exception that stops it.
\* row[cat] raises KeyError for a column the header lacks, float() raises
\* ValueError for a text and TypeError for None, and every comparison with
\* nan is false.
RECURSIVE AllInScale(_, _, _)
AllInScale(fields, cells, k) ==
    IF k > Len(categories) THEN "True"
    ELSE LET cat == categories[k]
         IN  IF cat \notin fields THEN "KeyError"
             ELSE CASE cells[cat].kind = "None" -> "TypeError"
                    [] cells[cat].kind = "text" -> "ValueError"
                    [] cells[cat].kind = "nan" -> "False"
                    [] OTHER -> IF InScale(cells[cat].val)
                                THEN AllInScale(fields, cells, k + 1)
                                ELSE "False"

\* lines 32-36: _validate_response(row); `except (ValueError, KeyError)`
\* returns False, any other exception leaves the call
validate_response(fields, cells) ==
    LET r == AllInScale(fields, cells, 1)
    IN  IF r \in {"ValueError", "KeyError"} THEN "False" ELSE r

\* next(reader): the 1-based line of the next row after line_num lines have
\* been read; the header line and blank lines are read over.  0 when the
\* file ends first.
NextRow(csv, ln) ==
    LET from == IF ln = 0 THEN 2 ELSE ln + 1
        rows == {j \in from..Len(csv) : csv[j].kind = "row"}
    IN  IF rows = {} THEN 0 ELSE CHOOSE j \in rows : \A q \in rows : j <= q

\* np.mean(scores), scores in hundredths
MeanOf(scores) == Rat(RSumSeq([k \in 1..Len(scores) |-> Rat(scores[k], 1)]).n,
                      100 * Len(scores))

\* round(x, 1), in tenths
Round1(x) ==
    LET lowTenths == (10 * x.n) \div x.d
        rest == 10 * x.n - lowTenths * x.d
    IN  IF 2 * rest < x.d THEN {lowTenths}
        ELSE IF 2 * rest > x.d THEN {lowTenths + 1}
        ELSE {lowTenths, lowTenths + 1}

\* lines 66-75: the rounded mean of every category in cats, in hundredths
RECURSIVE MeanChoices(_, _)
MeanChoices(data, cats) ==
    IF cats = {} THEN {[c \in {} |-> 0]}
    ELSE LET c == CHOOSE c \in cats : TRUE
         IN  {(c :> m) @@ f : m \in Round2(MeanOf(data[c])),
                              f \in MeanChoices(data, cats \ {c})}

\* lines 78-81: sum(mean * weight for cat in self.categories)
RECURSIVE WeightedMeans(_, _)
WeightedMeans(means, k) ==
    IF k > Len(NAAC_WEIGHTS) THEN Rat(0, 1)
    ELSE RAdd(Rat(means[categories[k]] * NAAC_WEIGHTS[k].weight, 10000),
              WeightedMeans(means, k + 1))

NoAnalysis ==
    [metadata |-> [total_responses |-> 0, valid_responses |-> 0,
                   validity_percentage |-> 0],
     category_analysis |-> [c \in CategorySet |-> [mean |-> 0]],
     naac_scoring |-> [weighted_score |-> 0]]

\* lines 45-49: one iteration of `for row in reader`
SssRow ==
    /\ phase = "sss"
    /\ NextRow(csv_file, line_num) # 0
    /\ LET j == NextRow(csv_file, line_num)
           row == csv_file[j].cells
           valid == validate_response(csv_file[1].fields, row)
       IN  /\ line_num' = j
           /\ CASE valid = "True" ->
                     /\ valid_responses' = valid_responses + 1
                     /\ category_data' = [c \in CategorySet |->
                                             Append(category_data[c], row[c].val)]
                     /\ UNCHANGED <<phase, raised>>
                [] valid = "False" ->
                     UNCHANGED <<valid_responses, category_data, phase, raised>>
                [] OTHER ->
                     /\ raised' = valid
                     /\ phase' = "sss_raised"
                     /\ UNCHANGED <<valid_responses, category_data>>
    /\ UNCHANGED <<segVars, qnmVars, calcVars, verVars, pipeVars, csv_file, analysis>>
    /\ UNCHANGED apiVars

\* lines 51-89: the reader is exhausted; the rest of process.  The percentage
\* is in tenths, the means and the weighted score in hundredths.
SssFinish ==
    /\ phase = "sss"
    /\ NextRow(csv_file, line_num) = 0
    /\ line_num' = Len(csv_file)
    /\ IF valid_responses = 0
       THEN /\ raised' = "ValueError"
            /\ phase' = "sss_raised"
            /\ UNCHANGED analysis
       ELSE IF line_num' - 1 = 0
       THEN /\ raised' = "ZeroDivisionError"
            /\ phase' = "sss_raised"
            /\ UNCHANGED analysis
       ELSE /\ \E pct \in Round1(Rat(100 * valid_responses, line_num' - 1)),
                  means \in MeanChoices(category_data, CategorySet) :
                  \E weighted_score \in Round2(WeightedMeans(means, 1)) :
                     analysis' =
                        [metadata |-> [total_responses |-> line_num' - 1,
                                       valid_responses |-> valid_responses,
                                       validity_percentage |-> pct],
                         category_analysis |->
                            [c \in CategorySet |-> [mean |-> means[c]]],
                         naac_scoring |-> [weighted_score |-> weighted_score]]
            /\ phase' = "sss_done"
            /\ UNCHANGED raised
    /\ UNCHANGED <<segVars, qnmVars, calcVars, verVars, pipeVars, csv_file,
                   category_data, valid_responses>>
    /\ UNCHANGED apiVars

\* the processor's variables before process runs (lines 40-41)
SssIdle ==
    /\ csv_file = <<>>
    /\ line_num = 0
    /\ category_data = [c \in CategorySet |-> <<>>]
    /\ valid_responses = 0
    /\ analysis = NoAnalysis

\* nothing has been raised, verified or written
RunIdle ==
    /\ raised = "none"
    /\ verified = FALSE
    /\ reported = <<>>
    /\ written = {}
    /\ fs = <<>>
    /\ inodes = <<>>
    /\ req = <<>>

----------------------------------------------------------------------------
(* Section texts, as the match of every pattern on them.  A matching       *)
(* pattern captures a number at or next to one of the rule's bounds.       *)

\* the right operand of a ratio and the second group of a pair
RatioRight == {60}

Candidates(rule) == {v \in {rule.min - 1, rule.min, rule.max, rule.max + 1} : v >= 0}

Outcomes(rule) ==
    {NoMatch} \cup
    {Match(CASE rule.form = "ratio" -> << <<v, r>> >>
             [] rule.form = "pair" -> << <<v>>, <<r>> >>
             [] OTHER -> << <<v>> >>) : v \in Candidates(rule), r \in RatioRight}

MetricOutcomes(m) ==
    {<<a, b>> : a \in Outcomes(QNM_PATTERNS[m][1]), b \in Outcomes(QNM_PATTERNS[m][2])}

NoMentions == [m \in MetricIds |-> <<NoMatch, NoMatch>>]

RECURSIVE ContentsMentioning(_)
ContentsMentioning(k) ==
    IF k = 0 THEN {NoMentions}
    ELSE LET T == ContentsMentioning(k - 1)
         IN  T \cup UNION {{[c EXCEPT ![m] = o] : o \in MetricOutcomes(m)}
                           : c \in T, m \in MetricIds}

Contents == ContentsMentioning(MaxMentioned)

\* what extract_qnm returns on these section texts
SectionResults == {extract_qnm(c) : c \in Contents}

\* the extractor's variables while another component is exercised
QnmIdle ==
    /\ section_text = NoMentions
    /\ results = NoMetrics
    /\ final_metrics = NoMetrics
    /\ sec_idx = 0

----------------------------------------------------------------------------
(* Specification of extract_qnm on one section text *)

\* results = extract_qnm(section_text)
Extract ==
    /\ phase = "extract"
    /\ IF ExtractRaises(section_text)
       THEN /\ raised' = "ValueError"
            /\ phase' = "extract_raised"
            /\ UNCHANGED results
       ELSE /\ results' = extract_qnm(section_text)
            /\ phase' = "extracted"
            /\ UNCHANGED raised
    /\ UNCHANGED <<segVars, calcVars, section_text, final_metrics, sec_idx>>
    /\ UNCHANGED <<sssVars, verVars, pipeVars>>
    /\ UNCHANGED apiVars

ExtractInit ==
    /\ phase = "extract"
    /\ SssIdle
    /\ RunIdle
    /\ SegIdle
    /\ section_text \in Contents
    /\ results = NoMetrics
    /\ final_metrics = NoMetrics
    /\ sec_idx = 0
    /\ CalcIdle

ExtractNext == Extract

SpecExtract == ExtractInit /\ [][ExtractNext]_vars

----------------------------------------------------------------------------
(* Specification of the merge loop of run_pipeline (lines 51-57) *)

\* one iteration of `for section, content in sections.items()`
MergeSection ==
    /\ phase = "merge"
    /\ sec_idx < MaxSections
    /\ \E qm \in SectionResults :
          /\ results' = qm
          /\ final_metrics' = Merge(final_metrics, qm)
    /\ sec_idx' = sec_idx + 1
    /\ UNCHANGED <<phase, segVars, calcVars, section_text>>
    /\ UNCHANGED <<sssVars, verVars, pipeVars, raised>>
    /\ UNCHANGED apiVars

MergeInit ==
    /\ phase = "merge"
    /\ SssIdle
    /\ RunIdle
    /\ SegIdle
    /\ QnmIdle
    /\ CalcIdle

MergeNext == MergeSection

SpecMerge == MergeInit /\ [][MergeNext]_vars

----------------------------------------------------------------------------
(* Input texts: the headers of any subset of the canonical list, in        *)
(* canonical order, with up to MaxExtra further tokens (a character, a     *)
(* whitespace or one more header occurrence) inserted anywhere.            *)

InsertAt(s, p, tok) == SubSeq(s, 1, p) \o <<tok>> \o SubSeq(s, p + 1, Len(s))

InOrderTexts ==
    {SelectSeq(MANUAL_HEADERS, LAMBDA h : h \in S) : S \in SUBSET HeaderSet}

\* an insertion: a position (clamped to the length of the text) and a token
Insertions == (0..(Len(MANUAL_HEADERS) + MaxExtra)) \X Alphabet

RECURSIVE ApplyInserts(_, _)
ApplyInserts(s, ins) ==
    IF ins = <<>> THEN s
    ELSE LET p == IF Head(ins)[1] > Len(s) THEN Len(s) ELSE Head(ins)[1]
         IN  ApplyInserts(InsertAt(s, p, Head(ins)[2]), Tail(ins))

----------------------------------------------------------------------------
(* Specification of the segmenter *)

SegInit ==
    /\ phase = "segment"
    /\ SssIdle
    /\ RunIdle
    /\ \E base \in InOrderTexts, k \in 0..MaxExtra :
          \E ins \in [1..k -> Insertions] : text = ApplyInserts(base, ins)
    /\ i = 0
    /\ current_pos = 0
    /\ sections = <<>>
    /\ QnmIdle
    /\ CalcIdle

SegNext == SegStep

SpecSeg == SegInit /\ [][SegNext]_vars

----------------------------------------------------------------------------
(* Specification of manual_segmenter followed by verify_extraction *)

VerifyNext == SegStep \/ Verify

SpecVerify == SegInit /\ [][VerifyNext]_vars

----------------------------------------------------------------------------
(* Inputs of the calculator *)

\* raw values of a metric id: around its benchmark (and a negative one, which
\* the extractor never yields but a metrics file can hold) or, without a
\* benchmark, the upper bound of its first rule
RawSamples(m) ==
    IF m \in DOMAIN QNM_BENCHMARKS
    THEN LET B == QNM_BENCHMARKS[m] IN {0 - (B \div 2), B \div 2, B, 5 * B}
    ELSE {QNM_PATTERNS[m][1].max}

RECURSIVE RawDicts(_)
RawDicts(S) ==
    IF S = {} THEN {NoMetrics}
    ELSE LET m == CHOOSE m \in S : TRUE
             rest == RawDicts(S \ {m})
         IN  rest \cup {(m :> v) @@ f : v \in RawSamples(m), f \in rest}

\* classifier confidences in thousandths; the last one is above 1
ConfSamples == {0, 615, 1000, 1250}

\* survey weighted scores in hundredths, inside and outside [0, 4]
SssSamples == {0 - 50, 0, 377, 400, 450}

----------------------------------------------------------------------------
(* Specification of calculate *)

CalcInit ==
    /\ phase = "calc"
    /\ SssIdle
    /\ RunIdle
    /\ SegIdle
    /\ QnmIdle
    /\ raw_qnm \in RawDicts(MetricIds)
    /\ \E n \in 0..MaxPredictions : qlm_conf \in [1..n -> ConfSamples]
    /\ sss_weighted \in SssSamples
    /\ result = NoResult

CalcNext == Calculate

SpecCalc == CalcInit /\ [][CalcNext]_vars

----------------------------------------------------------------------------
(* Specification of the grade lookup on every two-decimal cgpa *)

GradeInit ==
    /\ phase = "grade"
    /\ SssIdle
    /\ RunIdle
    /\ SegIdle
    /\ QnmIdle
    /\ raw_qnm = NoMetrics
    /\ qlm_conf = <<>>
    /\ sss_weighted = 0
    /\ \E c \in (0 - CgpaMargin)..(GRADE_BOUNDARIES[1].high + CgpaMargin) :
          result = [NoResult EXCEPT !.cgpa = c]

GradeNext == Grade

SpecGrade == GradeInit /\ [][GradeNext]_vars

----------------------------------------------------------------------------
(* Survey files: a header with all 15 columns or with one of them left     *)
(* out, and up to MaxRows data lines.                                      *)

\* valid scores, in hundredths
ScoreSamples == {0, 200, 400}

UniformRow(v) == [c \in CategorySet |-> Float(v)]

\* rows with every cell on the scale
ValidRows ==
    {UniformRow(v) : v \in ScoreSamples}
        \cup {[UniformRow(0) EXCEPT ![categories[2]] = Float(400)]}

\* cells that make a row invalid: a text, nan, -1.00 and 4.01
BadCells == {Text, NaN, Float(0 - 100), Float(401)}

\* rows with one such cell, in the first or the last category
BadRows ==
    {[UniformRow(200) EXCEPT ![c] = b] :
        c \in {categories[1], categories[Len(categories)]}, b \in BadCells}

\* rows one field short, so that the last column is None, with or without a
\* bad cell in the first category
ShortRows ==
    {[r EXCEPT ![categories[Len(categories)]] = None] :
        r \in {UniformRow(200)} \cup {[UniformRow(200) EXCEPT ![categories[1]] = b] :
                                         b \in BadCells}}

DataLines == {RowLine(r) : r \in ValidRows \cup BadRows \cup ShortRows} \cup {BlankLine}

Headers == {HeaderLine(CategorySet), HeaderLine(CategorySet \ {categories[2]})}

\* the file f is empty or holds a header and up to MaxRows data lines
SurveyFile(f) ==
    \/ f = <<>>
    \/ \E n \in 0..MaxRows, h \in Headers :
          \E ls \in [1..n -> DataLines] : f = <<h>> \o ls

----------------------------------------------------------------------------
(* Specification of NAACSSSProcessor.process *)

SssInit ==
    /\ phase = "sss"
    /\ SegIdle
    /\ QnmIdle
    /\ CalcIdle
    /\ RunIdle
    /\ SurveyFile(csv_file)
    /\ line_num = 0
    /\ category_data = [c \in CategorySet |-> <<>>]
    /\ valid_responses = 0
    /\ analysis = NoAnalysis

SssNext == SssRow \/ SssFinish

SpecSss == SssInit /\ [][SssNext]_vars

----------------------------------------------------------------------------
(* run_pipeline (__init__.py).  The stages that are modelled above run as  *)
(* their own actions: SegStep and Verify between "segment" and "verified", *)
(* SssRow and SssFinish between "sss" and "sss_done" or "sss_raised",      *)
(* Calculate between "calc" and "calculated".  An exception that leaves a  *)
(* stage leaves run_pipeline, which catches nothing.                       *)

\* the files of data/raw and data/processed that run_pipeline writes
OutputFiles ==
    {"sample_ssr.json", "segmented_ssr.json", "qnm_metrics.json",
     "qlm_predictions.json", "naac_sss_report.json", "cgpa_result.json"}

\* lines 24-33: the PDF is missing (sys.exit(1)), cannot be read
\* (extract_text_from_pdf raises ValueError), or its text is saved
PipePdf ==
    /\ phase = "p_start"
    /\ \/ /\ raised' = "SystemExit"
          /\ phase' = "p_exit"
          /\ UNCHANGED written
       \/ /\ raised' = "ValueError"
          /\ phase' = "p_raised"
          /\ UNCHANGED written
       \/ /\ written' = written \cup {"sample_ssr.json"}
          /\ phase' = "segment"
          /\ UNCHANGED raised
    /\ UNCHANGED <<segVars, qnmVars, calcVars, sssVars, verVars>>
    /\ UNCHANGED apiVars

\* the else branch is left out: the sections are saved whatever
\* verify_extraction returned
PipeSegmented_noExit ==
    /\ phase = "verified"
    /\ written' = written \cup {"segmented_ssr.json"}
    /\ phase' = "p_qnm"
    /\ UNCHANGED <<segVars, qnmVars, calcVars, sssVars, verVars, raised>>
    /\ UNCHANGED apiVars

\* lines 42-48: `if verify_extraction(sections)` saves the sections, else
\* sys.exit(1)
PipeSegmented ==
    /\ phase = "verified"
    /\ IF verified
       THEN /\ written' = written \cup {"segmented_ssr.json"}
            /\ phase' = "p_qnm"
            /\ UNCHANGED raised
       ELSE /\ raised' = "SystemExit"
            /\ phase' = "p_exit"
            /\ UNCHANGED written
    /\ UNCHANGED <<segVars, qnmVars, calcVars, sssVars, verVars>>
    /\ UNCHANGED apiVars

\* what extract_qnm returns on the sections of the document: nothing, or a
\* number of research papers
PipeSectionResults == {r \in SectionResults : DOMAIN r \subseteq {"3.2.1"}}

\* the confidences the classifier gives, in thousandths
PipeConfs == {615, 1000}

\* lines 53-58: one iteration of the loop over the sections: extract_qnm on
\* the section, then its metrics merged into final_metrics
PipeQnmSection ==
    /\ phase = "p_qnm"
    /\ sec_idx < Len(sections)
    /\ \E qm \in PipeSectionResults :
          /\ results' = qm
          /\ final_metrics' = Merge(final_metrics, qm)
    /\ sec_idx' = sec_idx + 1
    /\ UNCHANGED <<phase, segVars, section_text, calcVars, sssVars, verVars,
                   pipeVars, raised>>
    /\ UNCHANGED apiVars

\* lines 59-62: after the loop the merged metrics are saved
PipeQnmSave ==
    /\ phase = "p_qnm"
    /\ sec_idx = Len(sections)
    /\ raw_qnm' = final_metrics
    /\ written' = written \cup {"qnm_metrics.json"}
    /\ phase' = "p_qlm"
    /\ UNCHANGED <<segVars, qnmVars, qlm_conf, sss_weighted, result, sssVars,
                   verVars, raised>>
    /\ UNCHANGED apiVars

\* the classifier's exception is swallowed and the run goes on without
\* predictions
PipeQlm_swallow ==
    /\ phase = "p_qlm"
    /\ \/ /\ phase' = "p_sss"
          /\ qlm_conf' = [k \in 1..Len(sections) |-> 0]
          /\ UNCHANGED <<raised, written>>
       \/ /\ \E c \in PipeConfs : qlm_conf' = [k \in 1..Len(sections) |-> c]
          /\ written' = written \cup {"qlm_predictions.json"}
          /\ phase' = "p_sss"
          /\ UNCHANGED raised
    /\ UNCHANGED <<segVars, qnmVars, raw_qnm, sss_weighted, result, sssVars, verVars>>
    /\ UNCHANGED apiVars

\* lines 64-68: process_qlm classifies every section and saves the
\* predictions, or the classifier raises
PipeQlm ==
    /\ phase = "p_qlm"
    /\ \/ /\ raised' = "Exception"
          /\ phase' = "p_raised"
          /\ UNCHANGED <<qlm_conf, written>>
       \/ /\ \E c \in PipeConfs : qlm_conf' = [k \in 1..Len(sections) |-> c]
          /\ written' = written \cup {"qlm_predictions.json"}
          /\ phase' = "p_sss"
          /\ UNCHANGED raised
    /\ UNCHANGED <<segVars, qnmVars, raw_qnm, sss_weighted, result, sssVars, verVars>>
    /\ UNCHANGED apiVars

\* the survey files of a run: only a header, one valid row, a valid and an
\* invalid row, a valid and a short row
PipeSurveyFiles ==
    {<<HeaderLine(CategorySet)>> \o ls :
        ls \in {<<>>, <<RowLine(UniformRow(400))>>,
                <<RowLine(UniformRow(200)),
                  RowLine([UniformRow(200) EXCEPT ![categories[1]] = Text])>>,
                <<RowLine(UniformRow(200)),
                  RowLine([UniformRow(200) EXCEPT
                              ![categories[Len(categories)]] = None])>>}}

\* lines 72-75: processor.process() opens the survey file
PipeSurvey ==
    /\ phase = "p_sss"
    /\ csv_file' \in PipeSurveyFiles
    /\ phase' = "sss"
    /\ UNCHANGED <<segVars, qnmVars, calcVars, line_num, category_data,
                   valid_responses, analysis, verVars, pipeVars, raised>>
    /\ UNCHANGED apiVars

\* lines 76-83: the report is saved and calculate is called on the three
\* saved files
PipeReport ==
    /\ phase = "sss_done"
    /\ written' = written \cup {"naac_sss_report.json"}
    /\ sss_weighted' = analysis.naac_scoring.weighted_score
    /\ phase' = "calc"
    /\ UNCHANGED <<segVars, qnmVars, raw_qnm, qlm_conf, result, sssVars, verVars,
                   raised>>
    /\ UNCHANGED apiVars

\* lines 84-95: the result is saved
PipeResult ==
    /\ phase = "calculated"
    /\ written' = written \cup {"cgpa_result.json"}
    /\ phase' = "p_done"
    /\ UNCHANGED <<segVars, qnmVars, calcVars, sssVars, verVars, raised>>
    /\ UNCHANGED apiVars

\* the texts of the PDF: the headers of any subset of the canonical list in
\* canonical order, bare or each followed by a character
WithBodies(t) == Concat([k \in 1..Len(t) |-> <<t[k], "x">>])

PipeTexts == InOrderTexts \cup {WithBodies(t) : t \in InOrderTexts}

PipeInit ==
    /\ phase = "p_start"
    /\ text \in PipeTexts
    /\ i = 0
    /\ current_pos = 0
    /\ sections = <<>>
    /\ QnmIdle
    /\ CalcIdle
    /\ SssIdle
    /\ RunIdle

PipeNext ==
    \/ PipePdf
    \/ SegStep
    \/ Verify
    \/ PipeSegmented
    \/ PipeQnmSection
    \/ PipeQnmSave
    \/ PipeQlm
    \/ PipeSurvey
    \/ SssRow
    \/ SssFinish
    \/ PipeReport
    \/ Calculate
    \/ PipeResult

SpecPipe == PipeInit /\ [][PipeNext]_vars

----------------------------------------------------------------------------
(* Claims about the segmenter *)

\* the text holds occurrences of MANUAL_HEADERS[k..7] in this order at
\* 1-based positions >= p
RECURSIVE InOrderFrom(_, _, _)
InOrderFrom(t, k, p) ==
    IF k > Len(MANUAL_HEADERS) THEN TRUE
    ELSE \E q \in p..Len(t) : t[q] = MANUAL_HEADERS[k] /\ InOrderFrom(t, k + 1, q + 1)

ContainsAllInOrder(t) == InOrderFrom(t, 1, 1)

\* C1: for every text that contains all 7 canonical headers in canonical
\* order, manual_segmenter returns exactly 7 entries whose keys are the 7
\* canonical headers in list order.
C1_SevenSections ==
    (SegDone /\ ContainsAllInOrder(text)) => Keys(sections) = MANUAL_HEADERS

\* a complete text with a further token in it has been segmented
C1_Witness ==
    /\ SegDone
    /\ ContainsAllInOrder(text)
    /\ Len(text) > Len(MANUAL_HEADERS)
    /\ Len(sections) = Len(MANUAL_HEADERS)

----------------------------------------------------------------------------
(* Claims about the metric extractor and the merge *)

\* C2: once a metric id is stored in the document-level mapping, no later
\* section's value for it replaces it: every step of the merge loop leaves
\* every stored entry as it was (first-seen-wins in document order).
C2_FirstSeenWins ==
    [][\A m \in DOMAIN final_metrics :
          m \in DOMAIN final_metrics' /\ final_metrics'[m] = final_metrics[m]]_vars

\* a later section yielded another value for a stored metric id
C2_Witness ==
    /\ phase = "merge"
    /\ sec_idx >= 2
    /\ \E m \in DOMAIN results : final_metrics[m] # results[m]

\* the number the k-th pattern of m captured on section text c
Captured(c, m, k) == ParseValue(FirstDigitGroup(c[m][k].groups))

\* the k-th pattern of m matches on c with a candidate within its own bounds
InRange(c, m, k) ==
    /\ c[m][k].matched
    /\ QNM_PATTERNS[m][k].min <= Captured(c, m, k)
    /\ Captured(c, m, k) <= QNM_PATTERNS[m][k].max

\* the k-th pattern of m matches on c with a candidate outside its bounds
OutOfRange(c, m, k) == c[m][k].matched /\ ~InRange(c, m, k)

PatternIdx(m) == 1..Len(QNM_PATTERNS[m])

\* the first pattern of m that matches on c is the k-th
FirstMatch(c, m, k) ==
    c[m][k].matched /\ \A j \in PatternIdx(m) : j < k => ~c[m][j].matched

\* C3: every value in the result of extract_qnm lies within [min, max] of a
\* rule of its metric id that captured it; a candidate equal to min or to
\* max is accepted (a metric id with a matching in-range pattern is in the
\* result), and no candidate outside its rule's bounds is stored.
C3_ValuesWithinBounds ==
    phase = "extracted" =>
        \A m \in MetricIds :
            /\ m \in DOMAIN results =>
                  \E k \in PatternIdx(m) :
                      InRange(section_text, m, k) /\ results[m] = Captured(section_text, m, k)
            /\ (\E k \in PatternIdx(m) : InRange(section_text, m, k)) => m \in DOMAIN results

\* a candidate equal to a bound was stored while another one was rejected
C3_Witness ==
    /\ phase = "extracted"
    /\ \E m \in DOMAIN results : \E k \in PatternIdx(m) :
          /\ results[m] \in {QNM_PATTERNS[m][k].min, QNM_PATTERNS[m][k].max}
          /\ \E j \in PatternIdx(m) : OutOfRange(section_text, m, j)

\* C4 as claimed: when the first pattern that matches for a metric id
\* yields a candidate outside its bounds, the metric id is absent from the
\* result (no further pattern is tried).
C4_FirstPatternOrNothing ==
    phase = "extracted" =>
        \A m \in MetricIds : \A k \in PatternIdx(m) :
            (FirstMatch(section_text, m, k) /\ OutOfRange(section_text, m, k))
                => m \notin DOMAIN results

\* C4 as amended: when the first pattern that matches for a metric id
\* yields a candidate outside its bounds, the metric id is absent from the
\* result exactly when no later pattern of that metric id matches with a
\* candidate within its own bounds.
C4_AbsentIffNoPatternValidates ==
    phase = "extracted" =>
        \A m \in MetricIds : \A k \in PatternIdx(m) :
            (FirstMatch(section_text, m, k) /\ OutOfRange(section_text, m, k))
                => (m \notin DOMAIN results
                      <=> ~\E j \in PatternIdx(m) : j > k /\ InRange(section_text, m, j))

\* the first matching pattern was out of range and nothing else validated
C4_Witness ==
    /\ phase = "extracted"
    /\ \E m \in MetricIds : \E k \in PatternIdx(m) :
          /\ FirstMatch(section_text, m, k)
          /\ OutOfRange(section_text, m, k)
          /\ \E j \in PatternIdx(m) : j > k /\ OutOfRange(section_text, m, j)
          /\ m \notin DOMAIN results

\* C5: when a matched candidate fails its pattern's range check, the next
\* pattern of the same metric id is tried: the result holds the candidate of
\* the first later pattern that is within its own bounds.
C5_NextPatternTried ==
    phase = "extracted" =>
        \A m \in MetricIds : \A k, j \in PatternIdx(m) :
            ( /\ k < j
              /\ OutOfRange(section_text, m, k)
              /\ InRange(section_text, m, j)
              /\ \A h \in PatternIdx(m) : h < j => ~InRange(section_text, m, h) )
                => (m \in DOMAIN results /\ results[m] = Captured(section_text, m, j))

\* a pattern failed its range check and a later one produced the metric
C5_Witness ==
    /\ phase = "extracted"
    /\ \E m \in DOMAIN results : \E k, j \in PatternIdx(m) :
          /\ k < j
          /\ OutOfRange(section_text, m, k)
          /\ InRange(section_text, m, j)
          /\ results[m] = Captured(section_text, m, j)

----------------------------------------------------------------------------
(* Claims about the calculator *)

\* the bands of the table that contain a cgpa given in hundredths
BandsHolding(cgpa) ==
    {k \in 1..Len(GRADE_BOUNDARIES) :
        GRADE_BOUNDARIES[k].low <= cgpa /\ cgpa <= GRADE_BOUNDARIES[k].high}

Reverse(xs) == [k \in 1..Len(xs) |-> xs[Len(xs) + 1 - k]]

\* C6: every two-decimal cgpa in [0.00, 4.00] lies in exactly one inclusive
\* band of GRADE_BOUNDARIES; the lookup returns that band's grade, and
\* returns the same grade when the table is iterated in the opposite order.
C6_OneBandPerCgpa ==
    (phase = "graded" /\ 0 <= result.cgpa /\ result.cgpa <= 400) =>
        /\ Cardinality(BandsHolding(result.cgpa)) = 1
        /\ \A k \in BandsHolding(result.cgpa) : result.grade = GRADE_BOUNDARIES[k].grade
        /\ GradeLookup(Reverse(GRADE_BOUNDARIES), result.cgpa) = result.grade

\* a cgpa on the lower edge of a band has been graded
C6_Witness ==
    /\ phase = "graded"
    /\ result.cgpa = 251
    /\ result.grade = "B+"

\* the inputs C7 is about
ValidScorerInput ==
    /\ \A k \in 1..Len(qlm_conf) : 0 <= qlm_conf[k] /\ qlm_conf[k] <= 1000
    /\ \A m \in DOMAIN raw_qnm : raw_qnm[m] >= 0

InZeroToFour(score) == 0 <= score /\ score <= 400

\* C7: when every confidence is in [0, 1] and every raw metric value is
\* non-negative, sgs_score, qlm_score, sss_score and cgpa lie in [0, 4]
\* whatever the survey weighted_score is, and a family without entries
\* contributes 0.
C7_ScoresWithinScale ==
    (phase = "calculated" /\ ValidScorerInput) =>
        /\ InZeroToFour(result.sgs_score)
        /\ InZeroToFour(result.qlm_score)
        /\ InZeroToFour(result.sss_score)
        /\ InZeroToFour(result.cgpa)
        /\ (DOMAIN raw_qnm \cap DOMAIN QNM_BENCHMARKS = {}) => result.sgs_score = 0
        /\ qlm_conf = <<>> => result.qlm_score = 0

\* a survey score above 4 met both families empty of usable entries
C7_Witness ==
    /\ phase = "calculated"
    /\ ValidScorerInput
    /\ sss_weighted > 400
    /\ raw_qnm # NoMetrics
    /\ result.normalized_qnm = NoMetrics
    /\ qlm_conf = <<>>
    /\ result.cgpa = 80

\* the inputs of the end-to-end scenario
ScenarioInput ==
    /\ raw_qnm = ("3.2.1" :> 200) @@ ("4.1.1" :> 20) @@ ("5.2.1" :> 50)
    /\ qlm_conf = <<615>>
    /\ sss_weighted = 377

\* 0.5*sgs + 0.3*qlm + 0.2*sss, times 100, from the returned normalized_qnm
\* and the loaded qlm and sss inputs
WeightedHundredths ==
    RAdd(RScale(SgsOf(result.normalized_qnm), 50, 1),
         RAdd(RScale(QlmOf(qlm_conf), 30, 1), RScale(SssOf(sss_weighted), 20, 1)))

\* C8: the returned cgpa is 0.5*sgs + 0.3*qlm + 0.2*sss rounded to two
\* decimals (it is within half a hundredth of it); the scenario input
\* normalizes to {4.0, 2.0, 2.0} and gives sgs_score 2.67, cgpa 2.83,
\* grade B++ and is_accredited true.
C8_WeightedRoundedCgpa ==
    phase = "calculated" =>
        /\ 2 * Abs(WeightedHundredths.n - result.cgpa * WeightedHundredths.d)
              <= WeightedHundredths.d
        /\ ScenarioInput =>
              /\ result.normalized_qnm =
                    ("3.2.1" :> Rat(4, 1)) @@ ("4.1.1" :> Rat(2, 1)) @@ ("5.2.1" :> Rat(2, 1))
              /\ result.sgs_score = 267
              /\ result.qlm_score = 246
              /\ result.sss_score = 377
              /\ result.cgpa = 283
              /\ result.grade = "B++"
              /\ result.is_accredited

\* the scenario has been calculated
C8_Witness == phase = "calculated" /\ ScenarioInput /\ result.cgpa = 283

\* a value the extractor can return for metric id m
ExtractorValue(m, v) ==
    \E k \in PatternIdx(m) : QNM_PATTERNS[m][k].min <= v /\ v <= QNM_PATTERNS[m][k].max

\* C9: the normalized score of a metric with benchmark B is non-decreasing
\* in the raw value, equals exactly 4.0 for every value >= B, and is not
\* below 0 for a value the extractor can return.
C9_NormalizeMonotoneCapped ==
    phase = "calculated" =>
        \A m \in DOMAIN result.normalized_qnm :
            /\ \A v \in RawSamples(m) \cup {raw_qnm[m] - 1, raw_qnm[m] + 1} :
                  /\ v >= raw_qnm[m] => RLeq(result.normalized_qnm[m], NormalizeOne(m, v))
                  /\ v <= raw_qnm[m] => RLeq(NormalizeOne(m, v), result.normalized_qnm[m])
            /\ raw_qnm[m] >= QNM_BENCHMARKS[m] => result.normalized_qnm[m] = Rat(4, 1)
            /\ ExtractorValue(m, raw_qnm[m]) => RLeq(Rat(0, 1), result.normalized_qnm[m])

\* one metric is above its benchmark, one at it and one below
C9_Witness ==
    /\ phase = "calculated"
    /\ \E a, b, c \in DOMAIN result.normalized_qnm :
          /\ raw_qnm[a] > QNM_BENCHMARKS[a] /\ result.normalized_qnm[a] = Rat(4, 1)
          /\ raw_qnm[b] = QNM_BENCHMARKS[b] /\ result.normalized_qnm[b] = Rat(4, 1)
          /\ raw_qnm[c] < QNM_BENCHMARKS[c] /\ raw_qnm[c] > 0
          /\ result.normalized_qnm[c] # Rat(4, 1)

\* the raw metrics with the ids that have no benchmark taken out
Benchmarked(raw) == [k \in DOMAIN raw \cap DOMAIN QNM_BENCHMARKS |-> raw[k]]

\* C10: the key set of the normalized mapping is exactly the raw metric ids
\* that have a benchmark; ids without one are dropped and do not influence
\* sgs (it is the mean over the benchmarked ids alone), and the raw mapping
\* is left as it was.
C10_UnbenchmarkedDropped ==
    [][(phase = "calc" /\ phase' = "calculated") =>
          /\ raw_qnm' = raw_qnm
          /\ DOMAIN result'.normalized_qnm = DOMAIN raw_qnm \cap DOMAIN QNM_BENCHMARKS
          /\ \A k \in DOMAIN result'.normalized_qnm :
                result'.normalized_qnm[k] = NormalizeOne(k, raw_qnm[k])
          /\ result'.sgs_score \in Round2(SgsOf([k \in DOMAIN Benchmarked(raw_qnm) |->
                                                  NormalizeOne(k, raw_qnm[k])]))]_vars

\* both extractable ids without a benchmark were in the raw mapping
C10_Witness ==
    /\ phase = "calculated"
    /\ {"1.1.1", "2.3.1"} \subseteq DOMAIN raw_qnm
    /\ DOMAIN result.normalized_qnm = {"3.2.1", "5.2.1"}

----------------------------------------------------------------------------
(* Claims about the accreditation flag *)

\* the lowest cgpa of grade C, in hundredths (GRADE_BOUNDARIES["C"][0])
LowestC == GRADE_BOUNDARIES[7].low

\* C11: in every result of calculate, is_accredited is true exactly when the
\* grade is not D; for a cgpa within [0.00, 4.00] this is exactly when
\* cgpa >= 1.51.
C11_AccreditedIffNotD ==
    phase = "graded" =>
        /\ result.is_accredited <=> result.grade # "D"
        /\ (0 <= result.cgpa /\ result.cgpa <= 400) =>
               (result.is_accredited <=> result.cgpa >= 151)

\* the lowest accredited cgpa has been graded
C11_Witness ==
    /\ phase = "graded"
    /\ result.cgpa = LowestC
    /\ result.grade = "C"
    /\ result.is_accredited

----------------------------------------------------------------------------
(* Claims about the survey processor *)

\* every one of the 15 categories is present and is a float within [0, 4]
RowValid(fields, cells) ==
    \A c \in CategorySet :
        /\ c \in fields
        /\ cells[c].kind = "float"
        /\ 0 <= cells[c].val /\ cells[c].val <= 400

\* the rows among the first n lines of the file that are valid in this sense
ValidRowsUpTo(n) ==
    SelectSeq(SubSeq(csv_file, 2, n),
              LAMBDA l : l.kind = "row" /\ RowValid(csv_file[1].fields, l.cells))

\* the rows among the first n lines of the file
RowsUpTo(n) == SelectSeq(SubSeq(csv_file, 2, n), LAMBDA l : l.kind = "row")

SssRunning == phase \in {"sss", "sss_done", "sss_raised"}

\* C12: a survey row is counted as valid iff every one of the 15 categories
\* is present and parses as a float within [0, 4]; every category's sample
\* list holds exactly valid_responses values, all within [0, 4], namely the
\* values of the valid rows read so far, so a row that is invalid in any
\* single category contributes to no category.
C12_OnlyValidRowsContribute ==
    SssRunning =>
        LET valid == ValidRowsUpTo(line_num)
        IN  /\ valid_responses = Len(valid)
            /\ \A c \in CategorySet :
                  /\ Len(category_data[c]) = valid_responses
                  /\ category_data[c] = [k \in 1..Len(valid) |-> valid[k].cells[c].val]
                  /\ \A k \in 1..Len(category_data[c]) :
                        0 <= category_data[c][k] /\ category_data[c][k] <= 400

\* process has returned on a file with a valid row and a row whose only
\* invalid cell is a 4.01 in the last category
C12_Witness ==
    /\ phase = "sss_done"
    /\ valid_responses = 1
    /\ \E j \in 2..Len(csv_file) :
          /\ csv_file[j].kind = "row"
          /\ csv_file[j].cells = [UniformRow(200) EXCEPT
                                     ![categories[Len(categories)]] = Float(401)]

\* process has returned or raised
SssEnded == phase \in {"sss_done", "sss_raised"}

\* n: the data rows of the file; k: the valid ones among them
DataRowCount == Len(RowsUpTo(Len(csv_file)))
ValidRowCount == Len(ValidRowsUpTo(Len(csv_file)))

\* C13: for a survey CSV with n data rows of which k >= 1 are valid, process
\* completes and reports total_responses = n, valid_responses = k and
\* validity_percentage = round(100*k/n, 1); a row with a missing,
\* non-numeric or out-of-bound category value is dropped and counted
\* without aborting processing.
C13_CountsReported ==
    (SssEnded /\ ValidRowCount >= 1) =>
        /\ phase = "sss_done"
        /\ analysis.metadata.total_responses = DataRowCount
        /\ analysis.metadata.valid_responses = ValidRowCount
        /\ analysis.metadata.validity_percentage
              \in Round1(Rat(100 * ValidRowCount, DataRowCount))

\* C14: process fails with an error and returns no analysis exactly when
\* zero rows are valid (a file with only a header row included), and never
\* reaches a division by zero.
C14_FailsIffNoValidRow ==
    SssEnded =>
        /\ (phase = "sss_raised" /\ analysis = NoAnalysis) <=> ValidRowCount = 0
        /\ raised # "ZeroDivisionError"

\* min(4.0, max(0.0, x))
ClampToScale(x) == RMin(Rat(4, 1), RMax(Rat(0, 1), x))

\* C15: the reported weighted_score is the sum over all 15 categories of
\* category mean times fixed weight, clamped to [0, 4] and rounded to two
\* decimals, so it never exceeds 4.0 for any set of valid rows.
C15_WeightedScoreClamped ==
    phase = "sss_done" =>
        LET means == [c \in CategorySet |-> analysis.category_analysis[c].mean]
        IN  /\ analysis.naac_scoring.weighted_score
                  \in Round2(ClampToScale(WeightedMeans(means, 1)))
            /\ analysis.naac_scoring.weighted_score <= 400

----------------------------------------------------------------------------
(* Claims about missing headers and the verification *)

\* the text holds occurrences of the headers hs, in this order, at 1-based
\* positions >= p
RECURSIVE HoldsInOrder(_, _, _)
HoldsInOrder(t, hs, p) ==
    IF hs = <<>> THEN TRUE
    ELSE \E q \in p..Len(t) : t[q] = Head(hs) /\ HoldsInOrder(t, Tail(hs), q + 1)

\* MANUAL_HEADERS without its m-th header
AllBut(m) == SelectSeq(MANUAL_HEADERS, LAMBDA h : h # MANUAL_HEADERS[m])

\* header m is absent from the text and the other six occur in canonical order
OnlyMissing(t, m) ==
    /\ \A p \in 1..Len(t) : t[p] # MANUAL_HEADERS[m]
    /\ HoldsInOrder(t, AllBut(m), 1)

\* C16: when exactly one of the seven expected headers is absent from the
\* text and the other six occur in canonical order, manual_segmenter omits
\* only that header's section and still returns the other six sections.
C16_OtherSixReturned ==
    SegDone =>
        \A m \in 1..Len(MANUAL_HEADERS) :
            OnlyMissing(text, m) => Keys(sections) = AllBut(m)

\* the criterion numbers whose sections are absent from the mapping
AbsentCriteria(secs) ==
    SelectSeq([n \in 1..7 |-> n],
              LAMBDA n : \A k \in 1..Len(secs) : secs[k].header # MANUAL_HEADERS[n])

\* C17: verify_extraction returns False exactly when fewer than 7 sections
\* are present, and in that case the criteria it reports as missing are
\* exactly the criteria whose sections are absent from the mapping.
C17_ReportsAbsentCriteria ==
    phase = "verified" =>
        /\ ~verified <=> Len(sections) < 7
        /\ ~verified => reported = AbsentCriteria(sections)

----------------------------------------------------------------------------
(* Claims about the spans of the sections *)

\* the 0-based position of the k-th header of a text that holds all 7 in
\* order: the first occurrence after the header before it
RECURSIVE MatchPos(_, _)
MatchPos(t, k) ==
    IF k = 1 THEN Find(t, MANUAL_HEADERS[1], 0)
    ELSE Find(t, MANUAL_HEADERS[k], MatchPos(t, k - 1) + 1)

\* the 0-based position where the k-th section ends: the next header, or the
\* end of the text
GapEnd(t, k) == IF k < Len(MANUAL_HEADERS) THEN MatchPos(t, k + 1) ELSE Len(t)

\* the text between the k-th header and the end of its section
Gap(t, k) == SubSeq(t, MatchPos(t, k) + 2, GapEnd(t, k))

\* c is s without the whitespace at its two ends
Trimmed(s, c) ==
    /\ c = <<>> \/ (c[1] # " " /\ c[Len(c)] # " ")
    /\ \E a \in 1..(Len(s) + 1) :
          /\ a + Len(c) - 1 <= Len(s)
          /\ c = SubSeq(s, a, a + Len(c) - 1)
          /\ \A p \in 1..Len(s) : (p < a \/ p > a + Len(c) - 1) => s[p] = " "

\* C18 as stated: for a text containing all 7 headers in order, the 7
\* section contents are the spans between the headers, and concatenating
\* them reconstructs the text from the first header's start to the end of
\* the document with only the header strings themselves removed.
C18_ContentsReconstructText ==
    (SegDone /\ ContainsAllInOrder(text)) =>
        /\ Len(sections) = 7
        /\ Concat([k \in 1..7 |-> sections[k].content])
              = Concat([k \in 1..7 |-> Gap(text, k)])

\* C18, amended: for a text containing all 7 headers in order, the 7 section
\* contents are pairwise non-overlapping spans of the text in document
\* order, each being the text between its header and the next header (the
\* end of the document for the last one) without the whitespace at its two
\* ends; concatenating them reconstructs the text from the first header's
\* start to the end of the document with the header strings and that
\* whitespace removed.
C18_ContentsAreTrimmedSpans ==
    (SegDone /\ ContainsAllInOrder(text)) =>
        /\ Len(sections) = 7
        /\ \A k \in 1..7 :
              /\ MatchPos(text, k) < GapEnd(text, k)
              /\ Trimmed(Gap(text, k), sections[k].content)

\* all 7 sections were returned for a text with a whitespace next to a
\* header, and that whitespace is in no content
C18_Witness ==
    /\ SegDone
    /\ ContainsAllInOrder(text)
    /\ Len(sections) = 7
    /\ \E p \in 1..Len(text) : text[p] = " "
    /\ Concat([k \in 1..7 |-> sections[k].content]) = <<>>

----------------------------------------------------------------------------
(* Claims about the errors of extract_qnm *)

\* C19: extract_qnm never raises for any section text: a metric id none of
\* whose patterns matches is simply absent, a failed range check is absorbed
\* inside the call, and the keys of the result are always a subset of the
\* metric ids of the rule table.
C19_ExtractNeverRaises ==
    /\ phase = "extract" => ENABLED Extract
    /\ phase # "extract_raised"
    /\ raised = "none"
    /\ phase = "extracted" =>
          /\ DOMAIN results \subseteq MetricIds
          /\ \A m \in MetricIds :
                (\A k \in PatternIdx(m) : ~section_text[m][k].matched)
                    => m \notin DOMAIN results

\* extract_qnm has returned the empty dict for a text on which both patterns
\* of a metric id matched a candidate outside their bounds
C19_Witness ==
    /\ phase = "extracted"
    /\ results = NoMetrics
    /\ \E m \in MetricIds : \A k \in PatternIdx(m) : OutOfRange(section_text, m, k)

----------------------------------------------------------------------------
(* Claims about run_pipeline *)

\* manual_segmenter has returned fewer than 7 sections
TooFewSections == i = Len(MANUAL_HEADERS) /\ Len(sections) < 7

\* no stage after the segmentation has run
NothingAfterSegmentation ==
    /\ final_metrics = NoMetrics /\ sec_idx = 0
    /\ CalcIdle
    /\ SssIdle

\* C20: in run_pipeline, if the segmenter recovers fewer than 7 sections the
\* run terminates with a failure status before any metric extraction,
\* classification, survey processing or scoring step runs, and the run
\* writes none of segmented_ssr.json, qnm_metrics.json, qlm_predictions.json,
\* naac_sss_report.json or cgpa_result.json.
C20_HaltsOnTooFewSections ==
    /\ [](TooFewSections =>
            /\ phase \in {"segment", "verified", "p_exit"}
            /\ NothingAfterSegmentation
            /\ written \subseteq {"sample_ssr.json"})
    /\ [][(TooFewSections /\ phase = "verified") =>
            (phase' = "p_exit" /\ raised' = "SystemExit")]_vars

\* the run has exited on a text without header VII
C20_Witness ==
    /\ phase = "p_exit"
    /\ raised = "SystemExit"
    /\ Len(sections) = 6
    /\ ~verified
    /\ written = {"sample_ssr.json"}

----------------------------------------------------------------------------
(* Claims about headers that are not found *)

\* the header the next iteration looks for
NextHeader == MANUAL_HEADERS[i + 1]

Looping == phase = "segment" /\ i < Len(MANUAL_HEADERS)

\* C24: when header i is not found at or after current_pos, no entry is
\* added for it, current_pos keeps its value, and header i+1 is then
\* searched from that same position, so a later header occurring at or
\* after that position is still found.
C24_SkippedHeaderKeepsPosition ==
    [][Looping =>
          IF \A p \in (current_pos + 1)..Len(text) : text[p] # NextHeader
          THEN /\ sections' = sections
               /\ current_pos' = current_pos
               /\ i' = i + 1
          ELSE /\ Keys(sections') = Append(Keys(sections), NextHeader)
               /\ i' = i + 1]_vars

\* header I was not in the text and a section of a later header was returned
C24_Witness ==
    /\ SegDone
    /\ \A p \in 1..Len(text) : text[p] # MANUAL_HEADERS[1]
    /\ sections # <<>>

\* C25: when a non-final header is found but the next header in the list
\* cannot be found at or after it, the found header's section runs from the
\* end of that header to the end of the text (its content is that span
\* without the whitespace at its two ends).
C25_SectionRunsToEndOfText ==
    [][(Looping /\ i + 1 < Len(MANUAL_HEADERS)) =>
          \A q \in (current_pos + 1)..Len(text) :
              ( /\ text[q] = NextHeader
                /\ \A p \in (current_pos + 1)..(q - 1) : text[p] # NextHeader
                /\ \A p \in q..Len(text) : text[p] # MANUAL_HEADERS[i + 2] )
              => /\ Len(sections') = Len(sections) + 1
                 /\ sections'[Len(sections')].header = NextHeader
                 /\ Trimmed(SubSeq(text, q + 1, Len(text)),
                            sections'[Len(sections')].content)
                 /\ current_pos' = Len(text)]_vars

\* header I was found, header II was not, and the section of header I holds
\* a character that follows a later header
C25_Witness ==
    /\ SegDone
    /\ Keys(sections) = <<MANUAL_HEADERS[1]>>
    /\ \E p \in 1..Len(text) : text[p] = MANUAL_HEADERS[3]
    /\ Len(sections[1].content) >= 2
    /\ sections[1].content[Len(sections[1].content)] = "x"

\* C28: the keys returned by manual_segmenter are a contiguous run of the
\* canonical header list: once a header has been found and the header after
\* it is not found at or after it, current_pos is the end of the text and
\* no later header is returned even if it occurs in the text; the last
\* returned section runs to the end of the text.
C28_KeysAreContiguousRun ==
    phase = "segment" =>
        /\ \E a \in 1..(Len(MANUAL_HEADERS) + 1) :
              Keys(sections) = SubSeq(MANUAL_HEADERS, a, a + Len(sections) - 1)
        /\ \A a \in 1..Len(MANUAL_HEADERS) :
              ( /\ sections # <<>>
                /\ sections[1].header = MANUAL_HEADERS[a]
                /\ a + Len(sections) - 1 < i )
              => current_pos = Len(text)
        /\ (SegDone /\ sections # <<>>) =>
              /\ current_pos = Len(text)
              /\ \E q \in 1..Len(text) :
                    /\ text[q] = sections[Len(sections)].header
                    /\ Trimmed(SubSeq(text, q + 1, Len(text)),
                               sections[Len(sections)].content)

\* only header I was returned although header III occurs in the text
C28_Witness ==
    /\ SegDone
    /\ Keys(sections) = <<MANUAL_HEADERS[1]>>
    /\ \E p \in 1..Len(text) : text[p] = MANUAL_HEADERS[3]
    /\ \A p \in 1..Len(text) : text[p] # MANUAL_HEADERS[2]

----------------------------------------------------------------------------
(* Claims about a cgpa outside every band *)

\* C27: when no inclusive band of the grade table contains the rounded cgpa
\* (for instance a cgpa above 4.00 produced by a classifier confidence above
\* 1, which the scorer accepts without validation), calculate returns grade
\* D and is_accredited false rather than failing.
C27_NoBandGivesD ==
    /\ phase = "calculated" => result # NoResult
    /\ (phase = "calculated" /\ BandsHolding(result.cgpa) = {}) =>
          /\ result.grade = "D"
          /\ ~result.is_accredited

\* a confidence above 1 has given a cgpa above 4.00
C27_Witness ==
    /\ phase = "calculated"
    /\ \E k \in 1..Len(qlm_conf) : qlm_conf[k] > 1000
    /\ result.cgpa > 400
    /\ result.grade = "D"

----------------------------------------------------------------------------
(* Claims about the order of the stages of run_pipeline *)

SegmenterDone ==
    /\ i = Len(MANUAL_HEADERS)
    /\ verified
    /\ "segmented_ssr.json" \in written

ExtractorStarted == sec_idx > 0

ExtractorDone == sec_idx = Len(sections)

AggregatorStarted == final_metrics # NoMetrics

AggregatorDone == "qnm_metrics.json" \in written /\ raw_qnm = final_metrics

\* normalized_qnm exists only as a part of the result of calculate
NormalizerDone == result # NoResult

ClassifierStarted == qlm_conf # <<>> \/ raised = "Exception"

ClassifierDone == "qlm_predictions.json" \in written

SurveyStarted == csv_file # <<>>

SurveyDone == "naac_sss_report.json" \in written /\ analysis # NoAnalysis

ScorerStarted == result # NoResult

PipeFailed == phase \in {"p_exit", "p_raised", "sss_raised"}

\* C26 as stated: the stages run in the order Segmenter, Metric Extractor,
\* Metric Aggregator, Normalizer, QlM classifier, Survey Statistics Engine,
\* Composite Scorer, each starting only after the previous one has produced
\* its complete output.
C26_StagesInStatedOrder ==
    /\ ExtractorStarted => SegmenterDone
    /\ AggregatorStarted => ExtractorDone
    /\ ClassifierStarted => (AggregatorDone /\ NormalizerDone)
    /\ SurveyStarted => ClassifierDone
    /\ ScorerStarted => SurveyDone

\* C26: run_pipeline runs the Segmenter; then the Metric Extractor and the
\* Metric Aggregator section by section (the metrics of a section are
\* merged before the next section is extracted); then the QlM classifier;
\* then the Survey Statistics Engine; then the Composite Scorer, which runs
\* the Normalizer as its first step.  Each of these stages starts only
\* after the previous one has produced its complete output, and a failure
\* in any stage prevents every later stage from running.
C26_StagesInCodeOrder ==
    /\ []( /\ ExtractorStarted => SegmenterDone
           /\ AggregatorStarted => ExtractorStarted
           /\ ClassifierStarted => (ExtractorDone /\ AggregatorDone)
           /\ SurveyStarted => ClassifierDone
           /\ NormalizerDone => SurveyDone
           /\ ScorerStarted => SurveyDone
           /\ "cgpa_result.json" \in written => ScorerStarted )
    /\ [][(phase = "p_qnm" /\ phase' = "p_qnm") =>
             /\ sec_idx' = sec_idx + 1
             /\ final_metrics' = Merge(final_metrics, results')]_vars
    /\ [][~PipeFailed]_vars

\* a run has gone through every stage
C26_Witness ==
    /\ phase = "p_done"
    /\ written = OutputFiles
    /\ final_metrics # NoMetrics
    /\ result # NoResult

----------------------------------------------------------------------------
(* cgpa_api.py and the command line of cgpa_calculator.py *)

\* a path: its directory, and the stem and the extension of its file name
PathOf(dir, stem, ext) == [dir |-> dir, stem |-> stem, ext |-> ext]

\* cgpa_api.py lines 20-22 and cgpa_calculator.py lines 78-81
QNM_PATH == PathOf("data/processed", "qnm_metrics", "json")

QLM_PATH == PathOf("data/processed", "qlm_predictions", "json")

SSS_PATH == PathOf("data/processed", "naac_sss_report", "json")

output_path == PathOf("data/processed", "cgpa_result", "json")

InputPaths == <<QNM_PATH, QLM_PATH, SSS_PATH>>

\* the content of a file: what it holds (the metrics, the predictions, the
\* survey report, a result, text that is not JSON, or nothing) and the
\* request that sent it (0 for a file that was there before)
FileContent(kind, owner) == [kind |-> kind, owner |-> owner]

EmptyFile == FileContent("empty", 0)

\* open(path, "wb") / open(path, "w"): an existing file is truncated, a
\* missing one is created; handle is the number of the opened file
OpenW(dir, nodes, path) ==
    IF path \in DOMAIN dir
    THEN [dir |-> dir,
          nodes |-> [nodes EXCEPT ![dir[path]] = EmptyFile],
          handle |-> dir[path]]
    ELSE [dir |-> [q \in DOMAIN dir \cup {path} |->
                      IF q = path THEN Len(nodes) + 1 ELSE dir[q]],
          nodes |-> Append(nodes, EmptyFile),
          handle |-> Len(nodes) + 1]

\* f.write(data) followed by the close at the end of the with block: the
\* data goes to offset 0 of the opened file.  If another handle has written
\* to the same file since it was truncated, the file holds the data, or the
\* data followed by the tail of the longer older content, which is not JSON
WriteAt0(old, data) ==
    IF old.kind = "empty" THEN {data}
    ELSE {data, FileContent("junk", data.owner)}

\* cgpa_calculator.py lines 33-51: json.load succeeds on the file, and the
\* keys calculate reads are there (the metrics dict may hold any keys)
Loads(c) == c.kind \in {"qnm", "qlm", "sss"}

\* calculate(*paths) raises: a file is missing (open), is not JSON
\* (json.load), or lacks v['confidence'] or ['naac_scoring']
CalcRaises(dir, nodes, paths) ==
    \/ \E k \in 1..3 : paths[k] \notin DOMAIN dir
    \/ ~Loads(nodes[dir[paths[1]]])
    \/ nodes[dir[paths[2]]].kind # "qlm"
    \/ nodes[dir[paths[3]]].kind # "sss"

\* calculate is a function of what the three files hold (Calculate above);
\* its result is identified here by the three contents it was computed from
CalcResultOf(dir, nodes, paths) == [k \in 1..3 |-> nodes[dir[paths[k]]]]

\* cgpa_api.py lines 171-172: path.unlink() on each path in turn; a path
\* that is not there raises FileNotFoundError and ends the loop
RECURSIVE UnlinkAll(_, _)
UnlinkAll(dir, paths) ==
    IF paths = <<>> THEN [dir |-> dir, failed |-> FALSE]
    ELSE IF Head(paths) \notin DOMAIN dir THEN [dir |-> dir, failed |-> TRUE]
    ELSE UnlinkAll([q \in DOMAIN dir \ {Head(paths)} |-> dir[q]], Tail(paths))

\* the paths among InputPaths that do not exist, in list order
MissingPaths(dir) ==
    LET NotThere(q) == q \notin DOMAIN dir
    IN  SelectSeq(InputPaths, NotThere)

\* str(e) of an HTTPException built from keyword arguments, as the paths it
\* names: "<status>: <detail>" where the installed Starlette defines
\* __str__, the empty string of Exception.__str__ where it does not
StrOfHTTPException(paths) == {paths, <<>>}

\* a request (or a run of the command line) before its first step
NewRequest(kind, uploads) ==
    [kind |-> kind, pc |-> "start", uploads |-> uploads, n |-> 0,
     temp_paths |-> <<>>, handle |-> 0, wrote |-> {},
     status |-> 0, reported |-> <<>>, called |-> FALSE, result |-> <<>>]

\* cgpa_calculator.py lines 83-108, the command line; status is the exit
\* code, reported the file names printed
CliMain(r) ==
    /\ req[r].kind = "cli"
    /\ req[r].pc = "start"
    /\ LET missing == MissingPaths(fs)
       IN  IF missing # <<>>
           THEN /\ req' = [req EXCEPT ![r] = [@ EXCEPT !.pc = "done",
                                                       !.status = 1,
                                                       !.reported = missing]]
                /\ UNCHANGED <<fs, inodes>>
           ELSE IF CalcRaises(fs, inodes, InputPaths)
           THEN /\ req' = [req EXCEPT ![r] = [@ EXCEPT !.pc = "done",
                                                       !.status = 1,
                                                       !.called = TRUE]]
                /\ UNCHANGED <<fs, inodes>>
           ELSE LET o == OpenW(fs, inodes, output_path)
                IN  /\ fs' = o.dir
                    /\ inodes' = [o.nodes EXCEPT ![o.handle] = FileContent("result", r)]
                    /\ req' = [req EXCEPT ![r] =
                                 [@ EXCEPT !.pc = "done",
                                           !.status = 0,
                                           !.called = TRUE,
                                           !.wrote = {o.handle},
                                           !.result = CalcResultOf(fs, inodes, InputPaths)]]
    /\ UNCHANGED <<phase, segVars, qnmVars, calcVars, sssVars, verVars, pipeVars,
                   raised>>

\* cgpa_api.py lines 99-119, POST /calculate-cgpa/: the HTTPException(400)
\* of line 103 is raised inside the try block, caught by `except Exception`
\* on line 115 and replaced by an HTTPException(500) whose detail is
\* "Error calculating CGPA: " followed by str(e)
CalculateCgpa(r) ==
    /\ req[r].kind = "cgpa"
    /\ req[r].pc = "start"
    /\ LET missing == MissingPaths(fs)
       IN  IF missing # <<>>
           THEN \E s \in StrOfHTTPException(missing) :
                   req' = [req EXCEPT ![r] = [@ EXCEPT !.pc = "done",
                                                      !.status = 500,
                                                      !.reported = s]]
           ELSE IF CalcRaises(fs, inodes, InputPaths)
           THEN req' = [req EXCEPT ![r] = [@ EXCEPT !.pc = "done",
                                                   !.status = 500,
                                                   !.called = TRUE]]
           ELSE req' = [req EXCEPT ![r] =
                          [@ EXCEPT !.pc = "done",
                                    !.status = 200,
                                    !.called = TRUE,
                                    !.result = CalcResultOf(fs, inodes, InputPaths)]]
    /\ UNCHANGED <<fs, inodes>>
    /\ UNCHANGED <<phase, segVars, qnmVars, calcVars, sssVars, verVars, pipeVars,
                   raised>>

\* line 161: temp_dir / file.filename
TempPath(filename) == PathOf("temp", filename.stem, filename.ext)

\* cgpa_api.py lines 146-163, POST /calculate-custom/ up to its first
\* await: the file names are checked (the HTTPException(400) of line 150
\* is caught on line 176 and replaced by an HTTPException(500)), the temp
\* directory is made, and the first temp file is opened for writing
CustomStart(r) ==
    /\ req[r].kind = "custom"
    /\ req[r].pc = "start"
    /\ LET ups == req[r].uploads
           bad == {k \in 1..3 : ups[k].filename.ext # "json"}
       IN  IF bad # {}
           THEN /\ \E s \in StrOfHTTPException(
                              <<ups[CHOOSE k \in bad : \A j \in bad : k <= j].filename>>) :
                      req' = [req EXCEPT ![r] = [@ EXCEPT !.pc = "done",
                                                         !.status = 500,
                                                         !.reported = s]]
                /\ UNCHANGED <<fs, inodes>>
           ELSE LET o == OpenW(fs, inodes, TempPath(ups[1].filename))
                IN  /\ fs' = o.dir
                    /\ inodes' = o.nodes
                    /\ req' = [req EXCEPT ![r] = [@ EXCEPT !.pc = "read",
                                                           !.n = 1,
                                                           !.handle = o.handle,
                                                           !.wrote = {o.handle}]]
    /\ UNCHANGED <<phase, segVars, qnmVars, calcVars, sssVars, verVars, pipeVars,
                   raised>>

\* lines 160-164 from the return of one `await file.read()` to the next:
\* the data is written and the file closed, its path is appended to
\* temp_paths, and the temp file of the next upload is opened
CustomRead(r) ==
    /\ req[r].kind = "custom"
    /\ req[r].pc = "read"
    /\ req[r].n < 3
    /\ LET q == req[r]
       IN  \E data \in WriteAt0(inodes[q.handle], q.uploads[q.n].content) :
              LET o == OpenW(fs, [inodes EXCEPT ![q.handle] = data],
                             TempPath(q.uploads[q.n + 1].filename))
              IN  /\ fs' = o.dir
                  /\ inodes' = o.nodes
                  /\ req' = [req EXCEPT ![r] =
                               [@ EXCEPT !.n = q.n + 1,
                                         !.handle = o.handle,
                                         !.wrote = @ \cup {o.handle},
                                         !.temp_paths =
                                             Append(@, TempPath(q.uploads[q.n].filename))]]
    /\ UNCHANGED <<phase, segVars, qnmVars, calcVars, sssVars, verVars, pipeVars,
                   raised>>

\* lines 163-180 from the return of the last `await file.read()`: the
\* third file is written, calculate runs on temp_paths, the temp files are
\* unlinked and the result returned; any exception on the way is replaced
\* by an HTTPException(500) on line 176
CustomFinish(r) ==
    /\ req[r].kind = "custom"
    /\ req[r].pc = "read"
    /\ req[r].n = 3
    /\ LET q == req[r]
           paths == Append(q.temp_paths, TempPath(q.uploads[3].filename))
       IN  \E data \in WriteAt0(inodes[q.handle], q.uploads[3].content) :
              LET nodes == [inodes EXCEPT ![q.handle] = data]
                  u == UnlinkAll(fs, paths)
              IN  /\ inodes' = nodes
                  /\ IF CalcRaises(fs, nodes, paths)
                     THEN /\ fs' = fs
                          /\ req' = [req EXCEPT ![r] =
                                       [@ EXCEPT !.pc = "done",
                                                 !.temp_paths = paths,
                                                 !.called = TRUE,
                                                 !.status = 500]]
                     ELSE /\ fs' = u.dir
                          /\ req' = [req EXCEPT ![r] =
                                       [@ EXCEPT !.pc = "done",
                                                 !.temp_paths = paths,
                                                 !.called = TRUE,
                                                 !.status = IF u.failed THEN 500 ELSE 200,
                                                 !.result = IF u.failed THEN <<>>
                                                            ELSE CalcResultOf(fs, nodes, paths)]]
    /\ UNCHANGED <<phase, segVars, qnmVars, calcVars, sssVars, verVars, pipeVars,
                   raised>>

\* an uploaded file
Upload(stem, ext, kind, owner) ==
    [filename |-> [stem |-> stem, ext |-> ext], content |-> FileContent(kind, owner)]

\* the file names of the three uploads of a request: the names of the
\* artifacts, names of its own, one name for all three, a name that does
\* not end in .json
UploadNames ==
    {<<"qnm", "qlm", "sss">>, <<"a", "b", "c">>, <<"data", "data", "data">>}

\* what the three uploads hold: the three artifacts, a survey report that
\* is not JSON, the predictions and the report in each other's place
UploadKinds ==
    {<<"qnm", "qlm", "sss">>, <<"qnm", "qlm", "junk">>, <<"qnm", "sss", "qlm">>}

UploadsOf(owner, names, exts, kinds) ==
    [k \in 1..3 |-> Upload(names[k], exts[k], kinds[k], owner)]

UploadExts == {<<"json", "json", "json">>, <<"json", "json", "csv">>}

\* the requests of a client: any names and contents
FirstUploads ==
    {UploadsOf(1, ns, es, ks) : ns \in UploadNames, es \in UploadExts, ks \in UploadKinds}

\* the requests of a second client, which sends well-formed or broken
\* artifacts under their usual names or under names of its own
SecondUploads ==
    {UploadsOf(2, ns, <<"json", "json", "json">>, ks) :
        ns \in {<<"qnm", "qlm", "sss">>, <<"d", "e", "f">>},
        ks \in {<<"qnm", "qlm", "sss">>, <<"qnm", "qlm", "junk">>}}

\* the artifacts under data/processed: each is absent, or there holding
\* its artifact or text that is not JSON
ArtifactKinds == <<"qnm", "qlm", "sss">>

ArtifactStates == {"absent", "good", "junk"}

\* the state before two POST /calculate-custom/ requests are handled by the
\* event loop, or before one POST /calculate-cgpa/ request or one run of
\* the command line
ApiInit ==
    /\ phase = "api"
    /\ SegIdle
    /\ QnmIdle
    /\ CalcIdle
    /\ SssIdle
    /\ raised = "none" /\ verified = FALSE /\ reported = <<>> /\ written = {}
    /\ \/ /\ fs = <<>>
          /\ inodes = <<>>
          /\ \E u1 \in FirstUploads, u2 \in SecondUploads :
                req = <<NewRequest("custom", u1), NewRequest("custom", u2)>>
       \/ /\ \E st \in [1..3 -> ArtifactStates] :
                LET there == {k \in 1..3 : st[k] # "absent"}
                    Nth(k) == Cardinality({j \in there : j <= k})
                IN  /\ fs = [q \in {InputPaths[k] : k \in there} |->
                                Nth(CHOOSE k \in there : InputPaths[k] = q)]
                    /\ \E nodes \in [1..Cardinality(there) -> [kind : {"qnm", "qlm", "sss", "junk"}, owner : {0}]] :
                          /\ \A k \in there :
                                nodes[Nth(k)].kind = IF st[k] = "good" THEN ArtifactKinds[k]
                                                     ELSE "junk"
                          /\ inodes = nodes
          /\ \E kind \in {"cgpa", "cli"} : req = <<NewRequest(kind, <<>>)>>

ApiNext ==
    \/ \E r \in DOMAIN req : CliMain(r)
    \/ \E r \in DOMAIN req : CalculateCgpa(r)
    \/ \E r \in DOMAIN req : CustomStart(r)
    \/ \E r \in DOMAIN req : CustomRead(r)
    \/ \E r \in DOMAIN req : CustomFinish(r)

SpecApi == ApiInit /\ [][ApiNext]_vars

----------------------------------------------------------------------------
(* Claims about the API and the command line *)

Finished(r) == req[r].pc = "done"

\* the entry point has signalled a failure: a non-zero exit code, or an
\* error status
SignalsFailure(q) ==
    IF q.kind = "cli" THEN q.status = 1 ELSE q.status \in {400, 500}

\* C21: when any of the three input artifacts is absent, both the command
\* line of cgpa_calculator and POST /calculate-cgpa/ report every missing
\* path to the caller, signal failure, and neither invoke calculate nor
\* write a result.
C21_MissingArtifactsReported ==
    \A r \in DOMAIN req :
        (req[r].kind \in {"cli", "cgpa"} /\ Finished(r) /\ MissingPaths(fs) # <<>>) =>
            /\ req[r].reported = MissingPaths(fs)
            /\ SignalsFailure(req[r])
            /\ ~req[r].called
            /\ req[r].result = <<>>
            /\ output_path \notin DOMAIN fs

BadFileName(q) == \E k \in 1..3 : q.uploads[k].filename.ext # "json"

\* C22: POST /calculate-cgpa/ responds with status 400 when an input file
\* is missing, POST /calculate-custom/ responds with status 400 when an
\* uploaded file name does not end in .json, and status 500 is used only
\* for failures of the calculation itself.
C22_DeclaredStatusDelivered ==
    \A r \in DOMAIN req :
        Finished(r) =>
            /\ (req[r].kind = "cgpa" /\ MissingPaths(fs) # <<>>) => req[r].status = 400
            /\ (req[r].kind = "custom" /\ BadFileName(req[r])) => req[r].status = 400
            /\ (req[r].kind \in {"cgpa", "custom"} /\ req[r].status = 500) =>
                  req[r].called

\* the request would succeed if it were handled alone: its file names end
\* in .json and differ, and its files hold the three artifacts
WellFormed(q) ==
    /\ ~BadFileName(q)
    /\ \A j, k \in 1..3 : j # k => q.uploads[j].filename # q.uploads[k].filename
    /\ Loads(q.uploads[1].content)
    /\ q.uploads[2].content.kind = "qlm"
    /\ q.uploads[3].content.kind = "sss"

\* C23: under every interleaving of two POST /calculate-custom/ requests at
\* their await points, each request's result is computed from exactly the
\* three files that request uploaded, and neither request fails because of
\* the other's writes or deletions in the temp directory.
C23_NoInterference ==
    \A r \in DOMAIN req :
        (req[r].kind = "custom" /\ Finished(r) /\ WellFormed(req[r])) =>
            /\ req[r].status = 200
            /\ req[r].result = [k \in 1..3 |-> req[r].uploads[k].content]

\* C29: after a POST /calculate-custom/ request finishes, whether it
\* returns a result or raises, none of the temp files that request wrote
\* remain in the temp directory.
C29_TempFilesRemoved ==
    \A r \in DOMAIN req :
        (req[r].kind = "custom" /\ Finished(r)) =>
            \A q \in DOMAIN fs : fs[q] \notin req[r].wrote

====
